---------------------------- MODULE Spec2Model ----------------------------
(***************************************************************************)
(* Order ledger and monthly report of the Clothing Store API (src/main.py). *)
(*                                                                         *)
(* Units.  Money is counted in mills (1/1000 of the currency unit) on the  *)
(* request side and in cents on the stored side; round(x, 2) is the map    *)
(* from mills to cents.  Prices are multiples of 125 mills (1/8 of a unit),*)
(* which binary floats represent exactly, so that Python's float           *)
(* arithmetic and round() agree with the integer arithmetic used here.     *)
(*                                                                         *)
(* Time.  A datetime is <<year, month, tick>>, compared lexicographically  *)
(* as Python compares naive datetimes; tick stands for everything below    *)
(* the month (day, hour, ..., microsecond).                                *)
(***************************************************************************)
EXTENDS Integers, Sequences, FiniteSets, TLC

VARIABLES
    db,      \* TRUE iff the imported database handle is not None
    orders,  \* the "order" collection, documents in insertion order
    now,     \* the last value datetime.utcnow() returned (or the start)
    resp     \* the HTTP response of the last request

vars == <<db, orders, now, resp>>

---------------------------------------------------------------------------
(* Bounds of the model *)

MaxOrders == 2          \* documents the collection may hold
MaxPricedOrders == 1    \* the same, in the pricing specification
MaxReportOrders == 2    \* the same, in the report specification
MaxItems == 2           \* items of one request, in the pricing specification
MaxTime == 3            \* clock ticks after ClockStart
TicksPerMonth == 2      \* instants of one month
OidLen == 2             \* hex digits of an ObjectId (24 in bson)

---------------------------------------------------------------------------
(* Optional values: <<>> is None, <<v>> is v *)

None == <<>>
Some(v) == <<v>>

(* Python truthiness of an Optional[int]: None and 0 are falsy *)
Truthy(o) == o # None /\ o[1] # 0

---------------------------------------------------------------------------
(* datetime *)

DtLess(a, b) ==
    \/ a[1] < b[1]
    \/ a[1] = b[1] /\ a[2] < b[2]
    \/ a[1] = b[1] /\ a[2] = b[2] /\ a[3] < b[3]

DtLeq(a, b) == a = b \/ DtLess(a, b)

(* the next instant of the clock *)
NextInstant(t) ==
    IF t[3] + 1 < TicksPerMonth THEN <<t[1], t[2], t[3] + 1>>
    ELSE IF t[2] = 12 THEN <<t[1] + 1, 1, 0>>
    ELSE <<t[1], t[2] + 1, 0>>

RECURSIVE Advance(_, _)
Advance(t, k) == IF k = 0 THEN t ELSE Advance(NextInstant(t), k - 1)

ClockStart == <<2023, 12, 0>>

Instants == {Advance(ClockStart, k) : k \in 0..MaxTime}

(* the values a call of datetime.utcnow() may return once the clock read t *)
Later(t) == {u \in Instants : DtLeq(t, u)}

(* datetime(y, m, 1): defined for 1 <= y <= 9999 and 1 <= m <= 12 *)
ValidDate(y, m) == y >= 1 /\ y <= 9999 /\ m >= 1 /\ m <= 12

dt(y, m) == <<y, m, 0>>

---------------------------------------------------------------------------
(* ObjectId *)

HexDigits == {"a", "f"}

RECURSIVE HexStrings(_)
HexStrings(n) ==
    IF n = 0 THEN {<<>>}
    ELSE {Append(s, c) : s \in HexStrings(n - 1), c \in HexDigits}

(* ObjectId(raw) raises InvalidId unless raw is OidLen hex digits *)
IsObjectId(raw) ==
    /\ Len(raw) = OidLen
    /\ \A i \in 1..Len(raw) : raw[i] \in HexDigits

(* the raw strings a client may send as order_id: every well-formed one, and
   malformed ones: too short, too long, a character that is no hex digit *)
RawIds ==
    HexStrings(OidLen) \cup
    LET s == CHOOSE x \in HexStrings(OidLen) : TRUE
    IN  {Tail(s), Append(s, "a"), [s EXCEPT ![1] = "z"]}

ObjectIds == {raw \in RawIds : IsObjectId(raw)}

(* insert_one gives the document an ObjectId no stored document has *)
StoredIds(coll) == {coll[i]._id : i \in 1..Len(coll)}

FreshId(coll) == CHOOSE o \in ObjectIds : o \notin StoredIds(coll)

---------------------------------------------------------------------------
(* round(x, 2): x in mills, the result in cents, ties to even *)

Round2(x) ==
    LET q == x \div 10
        r == x % 10
    IN  IF r < 5 THEN q
        ELSE IF r > 5 THEN q + 1
        ELSE IF q % 2 = 0 THEN q ELSE q + 1

(* sum(item.price * item.quantity for item in req.items) *)
RECURSIVE ItemsSum(_)
ItemsSum(items) ==
    IF items = <<>> THEN 0
    ELSE items[1].price * items[1].quantity + ItemsSum(Tail(items))

---------------------------------------------------------------------------
(* Responses *)

NoResponse == [op |-> "none", code |-> 0, body |-> <<>>]

HTTPException(op, code, detail) == [op |-> op, code |-> code, body |-> detail]

Ok(op, body) == [op |-> op, code |-> 200, body |-> body]

(* to_dict: the native key "_id" leaves as the string "id" *)
to_dict(doc) ==
    [k \in (DOMAIN doc \ {"_id"}) \cup {"id"} |->
        IF k = "id" THEN doc._id ELSE doc[k]]

---------------------------------------------------------------------------
Init ==
    /\ db \in BOOLEAN
    /\ orders = <<>>
    /\ now = ClockStart
    /\ resp = NoResponse

---------------------------------------------------------------------------
(* POST /orders *)

(* create_order_doc rounding half up instead of half to even *)
create_order_doc_half_up(req, t1, t2) ==
    [ customer_name    |-> req.customer_name,
      customer_email   |-> req.customer_email,
      shipping_address |-> req.shipping_address,
      items            |-> req.items,
      subtotal         |-> (ItemsSum(req.items) + 5) \div 10,
      status           |-> "pending",
      payment_method   |-> "qr",
      created_at       |-> t1,
      updated_at       |-> t2 ]

(* create_order_doc storing the order as already paid *)
create_order_doc_paid(req, t1, t2) ==
    [ customer_name    |-> req.customer_name,
      customer_email   |-> req.customer_email,
      shipping_address |-> req.shipping_address,
      items            |-> req.items,
      subtotal         |-> Round2(ItemsSum(req.items)),
      status           |-> "paid",
      payment_method   |-> "qr",
      created_at       |-> t1,
      updated_at       |-> t2 ]

create_order_doc(req, t1, t2) ==
    [ customer_name    |-> req.customer_name,
      customer_email   |-> req.customer_email,
      shipping_address |-> req.shipping_address,
      items            |-> req.items,
      subtotal         |-> Round2(ItemsSum(req.items)),
      status           |-> "pending",
      payment_method   |-> "qr",
      created_at       |-> t1,
      updated_at       |-> t2 ]

create_order(req, t1, t2) ==
    IF ~db
    THEN /\ resp' = HTTPException("create_order", 500, "Database not configured")
         /\ UNCHANGED <<db, orders, now>>
    ELSE LET doc == create_order_doc(req, t1, t2)
             stored == [k \in DOMAIN doc \cup {"_id"} |->
                           IF k = "_id" THEN FreshId(orders) ELSE doc[k]]
         IN  /\ DtLeq(now, t1) /\ DtLeq(t1, t2)
             /\ orders' = Append(orders, stored)
             /\ now' = t2
             /\ resp' = Ok("create_order", to_dict(stored))
             /\ UNCHANGED db

---------------------------------------------------------------------------
(* GET /orders *)

(* the orders of the cursor find().sort("created_at", -1): every document
   once, created_at descending; the store fixes no order among equal keys *)
Orderings(n) ==
    {p \in [1..n -> 1..n] : \A i, j \in 1..n : i # j => p[i] # p[j]}

SortedDesc(coll) ==
    {[i \in 1..Len(coll) |-> coll[p[i]]] : p \in
        {q \in Orderings(Len(coll)) :
            \A i, j \in 1..Len(coll) :
                i < j => DtLeq(coll[q[j]].created_at, coll[q[i]].created_at)}}

list_orders ==
    IF ~db
    THEN /\ resp' = HTTPException("list_orders", 500, "Database not configured")
         /\ UNCHANGED <<db, orders, now>>
    ELSE /\ \E cursor \in SortedDesc(orders) :
              resp' = Ok("list_orders", [i \in 1..Len(cursor) |-> to_dict(cursor[i])])
         /\ UNCHANGED <<db, orders, now>>

---------------------------------------------------------------------------
(* POST /orders/mark-paid *)

(* mark_paid_set writing the wrong status *)
mark_paid_set_cancelled(t1, t2) ==
    [status |-> "cancelled", paid_at |-> t1, updated_at |-> t2]

(* the $set document of the update *)
mark_paid_set(t1, t2) ==
    [status |-> "paid", paid_at |-> t1, updated_at |-> t2]

(* update_one(filter {_id: oid}, {$set: set}): the collection afterwards *)
update_one(coll, oid, set) ==
    [i \in 1..Len(coll) |->
        IF coll[i]._id = oid
        THEN [k \in DOMAIN coll[i] \cup DOMAIN set |->
                 IF k \in DOMAIN set THEN set[k] ELSE coll[i][k]]
        ELSE coll[i]]

(* matched_count of a filter that matches pending orders only *)
matched_count_pending(coll, oid) ==
    Cardinality({i \in 1..Len(coll) : coll[i]._id = oid /\ coll[i].status = "pending"})

matched_count(coll, oid) == Cardinality({i \in 1..Len(coll) : coll[i]._id = oid})

(* what the try block does with the result of update_one: the 404 it raises
   for matched_count == 0 is an Exception, and the except clause turns every
   Exception into the 400 *)
mark_paid_result(matched) ==
    IF matched = 0
    THEN HTTPException("mark_paid", 400, "Invalid ID")
    ELSE Ok("mark_paid", [updated |-> TRUE])

mark_paid(order_id, t1, t2) ==
    IF ~db
    THEN /\ resp' = HTTPException("mark_paid", 500, "Database not configured")
         /\ UNCHANGED <<db, orders, now>>
    ELSE IF ~IsObjectId(order_id)
    THEN /\ resp' = HTTPException("mark_paid", 400, "Invalid ID")
         /\ UNCHANGED <<db, orders, now>>
    ELSE /\ DtLeq(now, t1) /\ DtLeq(t1, t2)
         /\ orders' = update_one(orders, order_id, mark_paid_set(t1, t2))
         /\ now' = t2
         /\ resp' = mark_paid_result(matched_count(orders, order_id))
         /\ UNCHANGED db

---------------------------------------------------------------------------
(* GET /reports/monthly *)

(* InWindow with $lte for the upper end *)
InWindow_closed(created_at, start, end) == DtLeq(start, created_at) /\ DtLeq(created_at, end)

(* {"$match": {"created_at": {"$gte": start, "$lt": end}}} *)
InWindow(created_at, start, end) == DtLeq(start, created_at) /\ DtLess(created_at, end)

Match(coll, start, end) ==
    SelectSeq(coll, LAMBDA d : InWindow(d.created_at, start, end))

(* the first instant of the month after (y, m) *)
WindowEnd(y, m) == IF m = 12 THEN dt(y + 1, 1) ELSE dt(y, m + 1)

RECURSIVE SumSubtotal(_)
SumSubtotal(docs) ==
    IF docs = <<>> THEN 0 ELSE docs[1].subtotal + SumSubtotal(Tail(docs))

(* Group summing the subtotals of every matched order into each row *)
Group_all_revenue(docs) ==
    [s \in {docs[i].status : i \in 1..Len(docs)} |->
        LET g == SelectSeq(docs, LAMBDA d : d.status = s)
        IN  [count |-> Len(g), revenue |-> SumSubtotal(docs)]]

(* {"$group": {"_id": "$status", "count": {"$sum": 1}, "revenue": {"$sum":
   "$subtotal"}}}: one row per status among docs, revenue in cents *)
Group(docs) ==
    [s \in {docs[i].status : i \in 1..Len(docs)} |->
        LET g == SelectSeq(docs, LAMBDA d : d.status = s)
        IN  [count |-> Len(g), revenue |-> SumSubtotal(g)]]

RECURSIVE SumRows(_, _)
SumRows(agg, field) ==
    IF DOMAIN agg = {} THEN 0
    ELSE LET s == CHOOSE x \in DOMAIN agg : TRUE
         IN  agg[s][field] + SumRows([x \in DOMAIN agg \ {s} |-> agg[x]], field)

(* the response body built from the rows; round(x, 2) of a sum of cents *)
Report(y, m, agg) ==
    [ year          |-> y,
      month         |-> m,
      summary       |-> [s \in DOMAIN agg |->
                            [orders |-> agg[s].count,
                             revenue |-> Round2(10 * agg[s].revenue)]],
      total_orders  |-> IF DOMAIN agg # {} THEN SumRows(agg, "count") ELSE 0,
      total_revenue |-> IF DOMAIN agg # {} THEN Round2(10 * SumRows(agg, "revenue")) ELSE 0 ]

(* the whole query for a valid (y, m) *)
MonthlyReportOf(coll, y, m) == Report(y, m, Group(Match(coll, dt(y, m), WindowEnd(y, m))))

monthly_report(year, month, t) ==
    IF ~db
    THEN /\ resp' = HTTPException("monthly_report", 500, "Database not configured")
         /\ UNCHANGED <<db, orders, now>>
    ELSE LET y == IF Truthy(year) THEN year[1] ELSE t[1]
             m == IF Truthy(month) THEN month[1] ELSE t[2]
         IN  /\ DtLeq(now, t)
             /\ now' = t
             /\ resp' = IF ValidDate(y, m) /\ (m = 12 => ValidDate(y + 1, 1))
                        THEN Ok("monthly_report", MonthlyReportOf(orders, y, m))
                        ELSE HTTPException("monthly_report", 500, "Internal Server Error")
             /\ UNCHANGED <<db, orders>>

---------------------------------------------------------------------------
(* Requests *)

Item(price, quantity) ==
    [product_id |-> "p1", title |-> "shirt", price |-> price, quantity |-> quantity]

(* OrderItemIn: price is any float and quantity any int; these are the
   items of the requests, prices in mills *)
Items == {Item(125, 1), Item(375, 2), Item(125, 0), Item(0 - 125, 1)}

RECURSIVE ItemLists(_)
ItemLists(n) ==
    IF n = 0 THEN {<<>>}
    ELSE ItemLists(n - 1) \cup
         {Append(l, i) : l \in {k \in ItemLists(n - 1) : Len(k) = n - 1}, i \in Items}

(* keys a client may add to the JSON body beside the declared ones *)
Extras ==
    { [k \in {} |-> 0],
      [status |-> "cancelled", payment_method |-> "cash", subtotal |-> 99999] }

Body(items, extra) ==
    [k \in {"customer_name", "customer_email", "shipping_address", "items"}
            \cup DOMAIN extra |->
        CASE k = "customer_name" -> "Ann"
          [] k = "customer_email" -> "ann@example.org"
          [] k = "shipping_address" -> "1 Main St"
          [] k = "items" -> items
          [] OTHER -> extra[k]]

(* CreateOrderRequest: pydantic keeps the declared fields and ignores the rest *)
CreateOrderRequest(body) ==
    [ customer_name    |-> body.customer_name,
      customer_email   |-> body.customer_email,
      shipping_address |-> body.shipping_address,
      items            |-> body.items ]

(* the bodies of the ledger specification *)
LedgerBodies == {Body(<<Item(125, 1)>>, extra) : extra \in Extras}

(* the bodies of the report specification: one or two items *)
ReportBodies ==
    {Body(items, extra) :
        items \in {<<Item(125, 1)>>, <<Item(375, 2), Item(125, 1)>>},
        extra \in Extras}

(* the bodies of the pricing specification: every list of up to MaxItems items *)
PricingBodies == {Body(items, extra) : items \in ItemLists(MaxItems), extra \in Extras}

ReportYears == {None, Some(ClockStart[1]), Some(ClockStart[1] + 1)}
ReportMonths == {None} \cup {Some(m) : m \in {0, 1, 11, 12, 13}}

---------------------------------------------------------------------------
(* The ledger: every operation, the clock free to advance at each reading
   of datetime.utcnow(); the report is asked for the current month *)

CreateOrder ==
    \E body \in LedgerBodies, t1 \in Later(now) : \E t2 \in Later(t1) :
        /\ Len(orders) < MaxOrders
        /\ create_order(CreateOrderRequest(body), t1, t2)

MarkPaid ==
    \E order_id \in RawIds, t1 \in Later(now) : \E t2 \in Later(t1) :
        mark_paid(order_id, t1, t2)

ListOrders == list_orders

MonthlyReport == \E t \in Later(now) : monthly_report(None, None, t)

Next == CreateOrder \/ MarkPaid \/ ListOrders \/ MonthlyReport

Spec == Init /\ [][Next]_vars

---------------------------------------------------------------------------
(* Pricing: every list of items, the clock standing still *)

PricingCreateOrder ==
    \E body \in PricingBodies :
        /\ Len(orders) < MaxPricedOrders
        /\ create_order(CreateOrderRequest(body), now, now)

PricingMarkPaid == \E order_id \in RawIds : mark_paid(order_id, now, now)

PricingNext == PricingCreateOrder \/ PricingMarkPaid \/ ListOrders

SpecPricing == Init /\ [][PricingNext]_vars

---------------------------------------------------------------------------
(* Reporting: orders created as the clock advances, reports of every month *)

ReportCreateOrder ==
    \E body \in ReportBodies, t \in Later(now) :
        /\ Len(orders) < MaxReportOrders
        /\ create_order(CreateOrderRequest(body), t, t)

ReportMarkPaid == \E order_id \in RawIds : mark_paid(order_id, now, now)

ReportMonthlyReport ==
    \E year \in ReportYears, month \in ReportMonths :
        monthly_report(year, month, now)

ReportNext == ReportCreateOrder \/ ReportMarkPaid \/ ReportMonthlyReport

SpecReport == Init /\ [][ReportNext]_vars

---------------------------------------------------------------------------
(* Properties *)

Docs == {orders[i] : i \in 1..Len(orders)}

IsPaid(d) == d.status = "paid"

HasPaidAt(d) == "paid_at" \in DOMAIN d

(* the paid_at values of the stored orders: after a mark_paid of a stored
   order, the first clock reading of that call is among them *)
PaidInstants == {d.paid_at : d \in {e \in Docs : HasPaidAt(e)}}

(* C1: mark_paid answers a well-formed order_id that matches no stored order
   with NotFound (404) and a malformed order_id with InvalidIdentifier (400);
   the outcome is one of success, 404, 400, and a well-formed absent id never
   gets the 400. *)
C1_NotFoundDistinctFromInvalid ==
    [][\A order_id \in RawIds, t1 \in Instants, t2 \in Instants :
        (db /\ mark_paid(order_id, t1, t2)) =>
            /\ resp'.code \in {200, 404, 400}
            /\ resp'.code = 400 <=> ~IsObjectId(order_id)
            /\ resp'.code = 404 <=>
                   (IsObjectId(order_id) /\ order_id \notin StoredIds(orders))]_vars

(* C2: paid_at is absent from creation until the first successful mark_paid
   of the order, and once set its value is never written again. *)
C2_PaidAtSetOnce ==
    [][\A i \in 1..Len(orders) :
        /\ (~IsPaid(orders[i]) => ~HasPaidAt(orders[i]))
        /\ (HasPaidAt(orders[i]) =>
               HasPaidAt(orders'[i]) /\ orders'[i].paid_at = orders[i].paid_at)]_vars

(* C10: every stored order that was never paid has created_at = updated_at,
   and every paid order has paid_at = updated_at. *)
C10_OneInstantPerOperation ==
    \A d \in Docs :
        IF HasPaidAt(d) THEN d.paid_at = d.updated_at
        ELSE d.created_at = d.updated_at

(* C3: every stored order's items all have price >= 0 and quantity >= 1. *)
C3_ItemsValidated ==
    \A d \in Docs : \A k \in 1..Len(d.items) :
        d.items[k].price >= 0 /\ d.items[k].quantity >= 1

(* the sum of price x quantity over the first n items, in mills *)
RECURSIVE LineTotal(_, _)
LineTotal(items, n) ==
    IF n = 0 THEN 0
    ELSE LineTotal(items, n - 1) + items[n].quantity * items[n].price

(* c cents is x mills rounded to 2 decimal places: nearest, a tie to even *)
IsRounded(c, x) ==
    LET e == 10 * c - x
    IN  /\ e >= 0 - 5 /\ e <= 5
        /\ (e = 5 \/ e = 0 - 5) => c % 2 = 0

(* C4: in every reachable state each stored order's subtotal is the sum over
   its own items of price x quantity rounded to 2 decimal places, whatever the
   request body held beside the declared fields and whether or not the order
   was paid since; the created order returned carries the same value. *)
C4_SubtotalFromItems ==
    /\ \A d \in Docs : IsRounded(d.subtotal, LineTotal(d.items, Len(d.items)))
    /\ (resp.op = "create_order" /\ resp.code = 200) =>
           IsRounded(resp.body.subtotal, LineTotal(resp.body.items, Len(resp.body.items)))

(* a paid order of two items whose sum lies on a rounding tie *)
C4_Witness ==
    \E d \in Docs :
        /\ IsPaid(d)
        /\ Len(d.items) >= 2
        /\ LineTotal(d.items, Len(d.items)) % 10 = 5

(* C5: every order create_order persists and returns has status "pending"
   and payment_method "qr", whatever the request body, and payment_method
   stays "qr" after a mark_paid. *)
C5_CreatedPendingQr ==
    /\ \A d \in Docs : d.payment_method = "qr"
    /\ (resp.op = "create_order" /\ resp.code = 200) =>
           /\ resp.body.status = "pending"
           /\ resp.body.payment_method = "qr"
           /\ orders # <<>>
           /\ orders[Len(orders)]._id = resp.body.id
           /\ orders[Len(orders)].status = "pending"

(* an order was just created while an earlier one is paid *)
C5_Witness ==
    /\ resp.op = "create_order" /\ resp.code = 200
    /\ \E d \in Docs : IsPaid(d) /\ d.payment_method = "qr"

(* C6: mark_paid with the id of a stored order succeeds with {updated: true}
   and leaves the order "paid", also when the order is paid already: the
   status after a second call is the status after the first. *)
C6_MarkPaidTwice ==
    [][resp'.op = "mark_paid" =>
       \A order_id \in StoredIds(orders), t1 \in PaidInstants' :
        mark_paid(order_id, t1, now') =>
            /\ resp' = Ok("mark_paid", [updated |-> TRUE])
            /\ \A i \in 1..Len(orders) :
                   orders[i]._id = order_id =>
                       /\ orders'[i].status = "paid"
                       /\ IsPaid(orders[i]) => orders'[i].status = orders[i].status]_vars

(* a paid order after a successful mark_paid: the state a second call starts in *)
C6_Witness ==
    /\ resp = Ok("mark_paid", [updated |-> TRUE])
    /\ \E d \in Docs : IsPaid(d) /\ DtLess(d.created_at, d.paid_at)

(* C7: no order ever has a status other than "pending" and "paid", a paid
   order stays paid, and a status changes only to "paid" and only in
   mark_paid. *)
C7_StatusMonotonic ==
    /\ [](\A d \in Docs : d.status \in {"pending", "paid"})
    /\ [][\A i \in 1..Len(orders) :
            /\ IsPaid(orders[i]) => IsPaid(orders'[i])
            /\ orders'[i].status # orders[i].status =>
                   IsPaid(orders'[i]) /\ resp'.op = "mark_paid"]_vars

(* a report was taken while one order is paid and another pending *)
C7_Witness ==
    /\ resp.op = "monthly_report" /\ resp.code = 200
    /\ \E d, e \in Docs : IsPaid(d) /\ e.status = "pending"

(* the datetime t lies in the calendar month (y, m) *)
SameMonth(t, y, m) == t[1] = y /\ t[2] = m

CalendarYears == (ClockStart[1] - 1)..(ClockStart[1] + 2)

(* the stored orders created in the calendar month (y, m) *)
CreatedIn(y, m) == {i \in 1..Len(orders) : SameMonth(orders[i].created_at, y, m)}

(* C8: the window of monthly_report(year, month) is [first instant of the
   month, first instant of the following month): an order is matched iff its
   created_at lies in that calendar month, so the last instant of a month is
   in, the first instant of the next month is out, every order is matched by
   exactly one (year, month), and the report counts exactly those orders. *)
C8_HalfOpenWindow ==
    /\ \A d \in Docs :
           /\ \A y \in CalendarYears, m \in 1..12 :
                  InWindow(d.created_at, dt(y, m), WindowEnd(y, m))
                      <=> SameMonth(d.created_at, y, m)
           /\ Cardinality({ym \in CalendarYears \X (1..12) :
                  InWindow(d.created_at, dt(ym[1], ym[2]), WindowEnd(ym[1], ym[2]))}) = 1
    /\ (resp.op = "monthly_report" /\ resp.code = 200) =>
           resp.body.total_orders = Cardinality(CreatedIn(resp.body.year, resp.body.month))

(* December's report counts the order of December's last instant and not the
   order of January's first instant *)
C8_Witness ==
    /\ \E d, e \in Docs :
           /\ d.created_at = <<ClockStart[1], 12, TicksPerMonth - 1>>
           /\ e.created_at = <<ClockStart[1] + 1, 1, 0>>
    /\ resp.op = "monthly_report" /\ resp.code = 200
    /\ resp.body.year = ClockStart[1] /\ resp.body.month = 12
    /\ resp.body.total_orders = 1

(* the sum of the subtotals of the orders with index in S, in cents *)
RECURSIVE SubtotalOver(_)
SubtotalOver(S) ==
    IF S = {} THEN 0
    ELSE LET i == CHOOSE x \in S : TRUE
         IN  orders[i].subtotal + SubtotalOver(S \ {i})

(* the body b is the report of the orders with index in W *)
IsReportOf(b, W) ==
    /\ DOMAIN b.summary = {orders[i].status : i \in W}
    /\ \A s \in DOMAIN b.summary :
           LET G == {i \in W : orders[i].status = s}
           IN  /\ b.summary[s].orders = Cardinality(G)
               /\ b.summary[s].revenue = SubtotalOver(G)
    /\ b.total_orders = Cardinality(W)
    /\ b.total_revenue = SubtotalOver(W)
    /\ W = {} => (DOMAIN b.summary = {} /\ b.total_orders = 0 /\ b.total_revenue = 0)

(* C9: the summary of monthly_report has one entry per status among the
   orders of the window, with that status's count and sum of subtotals;
   total_orders is the number of orders of the window and total_revenue the
   sum of their subtotals (cents); an empty window gives summary = {},
   total_orders = 0, total_revenue = 0 and is answered, not an error. *)
C9_ReportAggregates ==
    /\ []((resp.op = "monthly_report" /\ resp.code = 200) =>
             IsReportOf(resp.body, CreatedIn(resp.body.year, resp.body.month)))
    /\ [][(db /\ resp'.op = "monthly_report") =>
           \A year \in ReportYears, month \in ReportMonths :
            ( /\ Truthy(year) /\ Truthy(month) /\ month[1] \in 1..12
              /\ monthly_report(year, month, now') ) =>
                /\ resp'.code = 200
                /\ resp'.body.year = year[1] /\ resp'.body.month = month[1]
                /\ IsReportOf(resp'.body, CreatedIn(year[1], month[1]))]_vars

(* a report over a paid and a pending order of different subtotals *)
C9_Witness ==
    /\ resp.op = "monthly_report" /\ resp.code = 200
    /\ DOMAIN resp.body.summary = {"pending", "paid"}
    /\ resp.body.summary["paid"].revenue # resp.body.summary["pending"].revenue
    /\ resp.body.total_orders = 2

===========================================================================
